-------------------------- MODULE Spec2Model --------------------------
(*
  Liquefaction-app: the normalization-and-convergence solvers of the
  CRR - CPT page (src/crr_cpt.py) and the CRR - SPT page (src/crr_spt.py),
  with the resistance pipeline that follows each of them (Spec), and the
  pages without a solver: CSR (src/csr.py), clay & plastic silt
  (src/crr_clay.py), DMT (src/crr_dmt.py) and Vs (src/crr_vs.py) (PagesSpec).

  One behaviour is one execution of a page's run() on one set of widget
  values.  Floats are fixed-point integers (value * S).  An uncaught Python
  exception ends the run in pc = "crashed" with its type in `error`.
*)
EXTENDS Integers, Sequences, FiniteSets, TLC

\* ---------------------------------------------------------------------
\* Fixed-point arithmetic standing for the program's floats.
\* A float v is the integer round(v * S); HUGE is the largest magnitude kept.
\* ---------------------------------------------------------------------
S == 1000000
K3 == 1000
HUGE == 2000000000
LN2 == 693147

Abs(x) == IF x < 0 THEN -x ELSE x
Sgn(x) == IF x < 0 THEN -1 ELSE 1
Min(a, b) == IF a < b THEN a ELSE b
Max(a, b) == IF a > b THEN a ELSE b

\* |a| * |b| / S without leaving 32 bits, saturating at HUGE
MulAbs(a, b) ==
    LET a1 == a \div K3
        a0 == a % K3
        b1 == b \div K3
        b0 == b % K3
    IN  IF a1 # 0 /\ b1 > HUGE \div a1 THEN HUGE
        ELSE Min(HUGE, a1 * b1
                       + ((a1 * b0 + a0 * b1 + ((a0 * b0 + 500) \div K3) + 500) \div K3))

Mul(a, b) == Sgn(a) * Sgn(b) * MulAbs(Abs(a), Abs(b))

RECURSIVE DivDigits(_, _, _, _)
DivDigits(r, b, k, acc) ==
    IF k = 0 THEN acc + (IF 2 * r >= b THEN 1 ELSE 0)
    ELSE DivDigits((r * 10) % b, b, k - 1, acc * 10 + ((r * 10) \div b))

RECURSIVE DivAbs(_, _)
DivAbs(a, b) ==
    IF b >= 200000000 THEN DivAbs(a \div 10, b \div 10)
    ELSE IF a \div b >= HUGE \div S THEN HUGE
    ELSE (a \div b) * S + DivDigits(a % b, b, 6, 0)

\* a / b for b # 0
Div(a, b) == Sgn(a) * Sgn(b) * DivAbs(Abs(a), Abs(b))

RECURSIVE ExpSeries(_, _, _, _)
ExpSeries(r, n, term, acc) ==
    IF term = 0 THEN acc
    ELSE ExpSeries(r, n + 1, (MulAbs(term, r) + ((n + 1) \div 2)) \div (n + 1), acc + term)

RECURSIVE Pow2(_)
Pow2(k) == IF k = 0 THEN 1 ELSE 2 * Pow2(k - 1)

\* floor division toward minus infinity is what \div does in TLA+
Exp(x) ==
    IF x >= 7600000 THEN HUGE
    ELSE IF x <= -20000000 THEN 0
    ELSE LET k == x \div LN2
             r == x - k * LN2
             e == ExpSeries(r, 0, S, 0)
         IN  IF k >= 0 THEN Min(HUGE, e * Pow2(k)) ELSE (e + (Pow2(-k) \div 2)) \div Pow2(-k)

RECURSIVE AtanhSeries(_, _, _, _)
AtanhSeries(z2, n, zp, acc) ==
    IF zp = 0 THEN acc
    ELSE AtanhSeries(z2, n + 2, MulAbs(zp, z2), acc + ((zp + (n \div 2)) \div n))

RECURSIVE LnNorm(_, _)
\* x > 0: <<k, y>> with x = y * 2^k and S <= y < 2S
LnNorm(x, k) ==
    IF x >= 2 * S THEN LnNorm(x \div 2, k + 1)
    ELSE IF x < S THEN LnNorm(x * 2, k - 1)
    ELSE <<k, x>>

Ln(x) ==
    LET ky == LnNorm(x, 0)
        y == ky[2]
        z == DivAbs(y - S, y + S)
    IN  ky[1] * LN2 + 2 * AtanhSeries(MulAbs(z, z), 1, z, 0)

RECURSIVE SqrtNewton(_, _)
SqrtNewton(x, y) ==
    LET y2 == (y + DivAbs(x, y)) \div 2
    IN  IF y2 >= y THEN y ELSE SqrtNewton(x, y2)

\* math.sqrt(x) for x >= 0
Sqrt(x) == IF x = 0 THEN 0 ELSE SqrtNewton(x, Max(x, S))

\* b ** e for b > 0
PowPos(b, e) == Exp(Mul(e, Ln(b)))

Sq(x) == Mul(x, x)
Cube(x) == Mul(Mul(x, x), x)
Fourth(x) == Mul(Sq(x), Sq(x))

\* `x = None` of the source (qc1Ncs, N1_60cs, last_m, MSF_max_user, Ic), and
\* the value of a name that is not bound yet (iter_count, CRR, ...)
None == -2147483647
\* IEEE not-a-number, what np.log gives for a negative argument
NaN == -2147483646

IsNum(x) == x # None /\ x # NaN

\* ---------------------------------------------------------------------
\* Python float semantics on top of the fixed-point operators
\* ---------------------------------------------------------------------

\* outcome of b ** e on floats: a float, a complex number, or an exception
PowKind(b, e) ==
    IF b > 0 THEN "real"
    ELSE IF b = 0 THEN (IF e < 0 THEN "ZeroDivisionError" ELSE "real")
    ELSE IF e % S = 0 THEN "real" ELSE "complex"

\* value of b ** e when PowKind(b, e) = "real"
PowReal(b, e) ==
    IF b > 0 THEN PowPos(b, e)
    ELSE IF b = 0 THEN (IF e = 0 THEN S ELSE 0)
    ELSE (IF (e \div S) % 2 = 0 THEN 1 ELSE -1) * PowPos(-b, e)

\* the float 1e-9 (below the fixed-point resolution): kept as the smallest
\* positive number, and log10 maps it to -9
E9 == 1
LN10 == 2302585
log10(x) == IF x = E9 THEN -9 * S ELSE Div(Ln(x), LN10)

\* np.log of a float: nan below 0, -inf (the largest magnitude kept) at 0
nplog(a) == IF a < 0 THEN NaN ELSE IF a = 0 THEN -HUGE ELSE Ln(a)

\* float arithmetic with a NaN operand gives NaN
NMul(a, b) == IF a = NaN \/ b = NaN THEN NaN ELSE Mul(a, b)
NSub(a, b) == IF a = NaN \/ b = NaN THEN NaN ELSE a - b

\* Python's min(a, b): b only if b < a, and no comparison with NaN is true
pymin(a, b) == IF a = NaN THEN a ELSE IF b = NaN THEN a ELSE IF b < a THEN b ELSE a
\* Python's max(a, b): b only if b > a
pymax(a, b) == IF a = NaN THEN a ELSE IF b = NaN THEN a ELSE IF b > a THEN b ELSE a

\* ---------------------------------------------------------------------
\* Constants of the two pages
\* ---------------------------------------------------------------------
CN_CAP == 1700000
M_LO == 246000
M_HI == 782000
INDEX_FLOOR == 1
MSF_CAP == 2200000
C_SIGMA_CAP == 300000
K_SIGMA_CAP == 1100000
C_FC == -70000
DEFAULT_TOL == 100
DEFAULT_MAX_ITER == 200
DEFAULT_PA == 101325000

\* ---------------------------------------------------------------------
\* Widget values of one run
\* ---------------------------------------------------------------------
MaxIter == 3

Pages == {"CPT", "SPT"}

\* qt (kPa) on the CPT page, N60 on the SPT page
QSet(page) == IF page = "CPT" THEN {150 * S, 2000 * S} ELSE {40 * S, 60 * S}

\* FC given directly, or Ic given, or (CPT page) Ic computed from Qtn and F
FinesChoices(page) ==
    [use_direct_FC : {TRUE}, FC : {-2 * S, 5 * S, 35 * S},
     provide_Ic_manual : {FALSE}, Ic : {None}]
    \cup [use_direct_FC : {FALSE}, FC : {None},
          provide_Ic_manual : {TRUE}, Ic : {1 * S, 3500000}]
    \cup (IF page = "CPT"
          THEN [use_direct_FC : {FALSE}, FC : {None},
                provide_Ic_manual : {FALSE}, Ic : {None}]
          ELSE {})

MsfChoices ==
    [provide_MSF_manual : {FALSE}, MSF_max_user : {None}]
    \cup [provide_MSF_manual : {TRUE}, MSF_max_user : {1600000, 3 * S}]

MkInput(page, q, svc, sv0, pa, mag, fines, im, tl, mi, msf) ==
    [page |-> page, q |-> q, sigma_vc |-> svc, sigma_v0 |-> sv0, Pa |-> pa,
     M |-> mag, use_direct_FC |-> fines.use_direct_FC, FC |-> fines.FC,
     provide_Ic_manual |-> fines.provide_Ic_manual, Ic |-> fines.Ic,
     fs |-> 5 * S, n_for_Qtn |-> 500000,
     init_m |-> im, tol |-> tl, max_iter |-> mi,
     provide_MSF_manual |-> msf.provide_MSF_manual,
     MSF_max_user |-> msf.MSF_max_user]

\* any values the number_input widgets accept (none of them has a min_value)
IsGeneralInput(i) ==
    \E page \in Pages :
    \E q \in QSet(page), svc \in {-100 * S, 0, 25 * S},
       sv0 \in {0, 25 * S, 200 * S}, pa \in {-DEFAULT_PA, 0, DEFAULT_PA},
       fines \in FinesChoices(page), im \in {0, 600000},
       tl \in {0, DEFAULT_TOL}, mi \in -1 .. MaxIter, msf \in MsfChoices :
        i = MkInput(page, q, svc, sv0, pa, 7500000, fines, im, tl, mi, msf)

\* the typical engineering ranges: qt in [50, 400] kPa, N60 in [5, 60],
\* positive stresses, and the default solver settings
TypicalQ(page) ==
    IF page = "CPT" THEN { k * 50 * S : k \in 1 .. 8 }
    ELSE { k * 5 * S : k \in 1 .. 12 }

TypicalFines ==
    [use_direct_FC : {TRUE}, FC : {0, 5 * S, 35 * S},
     provide_Ic_manual : {FALSE}, Ic : {None}]

IsTypicalInput(i) ==
    \E page \in Pages :
    \E q \in TypicalQ(page), sv \in {50 * S, 100 * S, 200 * S},
       fines \in TypicalFines, im \in {0, 600000} :
        i = MkInput(page, q, sv, sv, DEFAULT_PA, 7500000, fines, im,
                    DEFAULT_TOL, DEFAULT_MAX_ITER,
                    [provide_MSF_manual |-> FALSE, MSF_max_user |-> None])

\* valid stresses with the initial guess on a bound of the clamp, a tolerance
\* below, at and above zero and few iterations
IsEdgeInput(i) ==
    \E page \in Pages :
    \E q \in QSet(page), sv \in {25 * S, 100 * S}, im \in {M_LO, M_HI},
       tl \in {-DEFAULT_TOL, 0, DEFAULT_TOL}, mi \in 1 .. MaxIter :
        i = MkInput(page, q, sv, sv, DEFAULT_PA, 7500000,
                    [use_direct_FC |-> TRUE, FC |-> 5 * S,
                     provide_Ic_manual |-> FALSE, Ic |-> None],
                    im, tl, mi,
                    [provide_MSF_manual |-> FALSE, MSF_max_user |-> None])

IsTypical(i) ==
    /\ i.sigma_vc > 0 /\ i.sigma_v0 > 0 /\ i.Pa > 0
    /\ i.tol = DEFAULT_TOL /\ i.max_iter = DEFAULT_MAX_ITER
    /\ i.use_direct_FC /\ i.FC >= 0 /\ i.FC <= 100 * S
    /\ IF i.page = "CPT" THEN i.q >= 50 * S /\ i.q <= 400 * S
       ELSE i.q >= 5 * S /\ i.q <= 60 * S

\* ---------------------------------------------------------------------
\* Helper functions of crr_cpt.py
\* ---------------------------------------------------------------------
compute_F_from_fs(qt, fs, sigma_vc) ==
    IF qt - sigma_vc <= 0 THEN E9
    ELSE Mul(100 * S, Div(fs, qt - sigma_vc))

\* [kind, v]: the float returned, a complex number, or the exception raised
compute_Qtn(qt, sigma_vc, Pa, n) ==
    IF qt - sigma_vc <= 0 \/ sigma_vc <= 0 THEN [kind |-> "real", v |-> E9]
    ELSE IF Pa = 0 THEN [kind |-> "ZeroDivisionError", v |-> None]
    ELSE LET base == Div(Pa, sigma_vc)
         IN  IF PowKind(base, n) # "real" THEN [kind |-> PowKind(base, n), v |-> None]
             ELSE [kind |-> "real",
                   v |-> Mul(Div(qt - sigma_vc, Pa), PowReal(base, n))]

compute_Ic_from_Q_F(Qtn, F) ==
    LET logQ == IF Qtn > 0 THEN log10(Qtn) ELSE -10 * S
        logF == IF F > 0 THEN log10(F) ELSE -10 * S
    IN  Sqrt(Sq(3470000 - logQ) + Sq(1220000 + logF))

estimate_FC_from_Ic(Ic) == Mul(80 * S, Ic + C_FC) - 137 * S

\* FC = float(max(min(FC, 100.0), 0.0))
ClampFC(fc) == pymax(pymin(fc, 100 * S), 0)

\* for FC + 2 # 0
delta_qc1N_formula(qc1N, FC) ==
    LET denom == FC + 2 * S
        exponent == 1630000 - Div(9700000, denom) - Sq(Div(15700000, denom))
    IN  Mul(11900000 + Div(qc1N, 14600000), Exp(exponent))

compute_m_from_qc1Ncs(qc1Ncs) == 1338000 - Mul(249000, PowPos(qc1Ncs, 264000))

\* the clamp without its second `if`
ClampM_NoUpper(m_new) == IF m_new < M_LO THEN M_LO ELSE m_new

\* the two `if` statements that clamp m_new
ClampM(m_new) ==
    LET lo == IF m_new < M_LO THEN M_LO ELSE m_new
    IN  IF lo > M_HI THEN M_HI ELSE lo

\* C_N left uncapped
CapCN_None(CN) == CN

\* if CN > 1.7: CN = 1.7
CapCN(CN) == IF CN > CN_CAP THEN CN_CAP ELSE CN

\* if index_new < 1e-6: index_new = 1e-6
FloorIndex(x) == IF x < INDEX_FLOOR THEN INDEX_FLOOR ELSE x

\* the comparison turned round
ConvergenceTest_Gt(m_new, last_m, tol) ==
    last_m # None /\ Abs(m_new - last_m) > tol

\* the difference compared without abs()
ConvergenceTest_NoAbs(m_new, last_m, tol) ==
    last_m # None /\ m_new - last_m < tol

\* the test passing while last_m is still unset
ConvergenceTest_NoLast(m_new, last_m, tol) ==
    last_m = None \/ Abs(m_new - last_m) < tol

\* the comparison made non-strict
ConvergenceTest_Le(m_new, last_m, tol) ==
    last_m # None /\ Abs(m_new - last_m) <= tol

\* last_m is not None and abs(m_new - last_m) < tol
ConvergenceTest(m_new, last_m, tol) ==
    last_m # None /\ Abs(m_new - last_m) < tol

\* range(int(max_iter)) running one index too far
InRange_OffByOne(k, n) == k <= n

\* it in range(int(max_iter))
InRange(k, n) == k < n

\* Delta(N1)60 of crr_spt.py
delta_N1_60_formula(FC) ==
    LET denom == FC + 10000
    IN  IF denom <= 0 THEN 0
        ELSE Exp(1630000 + Div(9700000, denom) - Sq(Div(15700000, denom)))

compute_m_from_N1_60cs(N1_60cs) == 784000 - Mul(76800, Sqrt(N1_60cs))

\* ---------------------------------------------------------------------
\* Resistance pipeline formulas
\* ---------------------------------------------------------------------
CRR_base_cpt(qc) ==
    Exp(Div(qc, 113 * S) + Sq(Div(qc, 1000 * S)) - Cube(Div(qc, 140 * S))
        + Fourth(Div(qc, 137 * S)) - 2800000)

CRR_base_spt(N) ==
    Exp(-2800000 + Div(N, 14100000) + Sq(Div(N, 126 * S))
        - Cube(Div(N, 23600000)) + Fourth(Div(N, 25400000)))

msf_max_cpt(qc1Ncs) == pymin(Mul(1090000, Cube(Div(qc1Ncs, 180 * S))), MSF_CAP)

\* the SPT expression without min(., 2.2)
msf_max_spt_NoCap(N1_60cs) == Mul(1090000, Sq(Div(N1_60cs, 31500000)))

msf_max_spt(N1_60cs) == pymin(Mul(1090000, Sq(Div(N1_60cs, 31500000))), MSF_CAP)

\* if provide_MSF_manual and MSF_max_user is not None: ... else: ...
SelectMSFmax(i, computed) ==
    IF i.provide_MSF_manual /\ i.MSF_max_user # None THEN i.MSF_max_user
    ELSE computed

MSF_formula(MSF_max, M) ==
    S + Mul(MSF_max - S, Mul(8640000, Exp(Mul(-250000, M))) - 1325000)

\* denominators of the C_sigma formulas
CSigmaDenom_cpt(qc1Ncs) == 37300000 - Mul(8270000, PowPos(qc1Ncs, 264000))
CSigmaDenom_spt(N1_60cs) == 18900000 - Mul(2550000, Sqrt(N1_60cs))

CSigmaFrom(denom) ==
    IF denom <= 0 THEN C_SIGMA_CAP ELSE pymin(Div(S, denom), C_SIGMA_CAP)

C_sigma_cpt(qc1Ncs) == CSigmaFrom(CSigmaDenom_cpt(qc1Ncs))

C_sigma_spt(N1_60cs) == CSigmaFrom(CSigmaDenom_spt(N1_60cs))

\* the stress whose ratio to Pa enters the logarithm of K_sigma
KSigmaStress(i) == IF i.page = "CPT" THEN i.sigma_vc ELSE i.sigma_v0

\* the overburden correction with the sign of the logarithm term turned round
K_sigma_formula_Plus(C_sigma, stress, Pa) ==
    pymin(NSub(S, NMul(-C_sigma, nplog(Div(stress, Pa)))), K_SIGMA_CAP)

\* K_sigma = 1.0 - C_sigma * np.log(stress / Pa); K_sigma = min(K_sigma, 1.1)
\* for Pa # 0
K_sigma_formula(C_sigma, stress, Pa) ==
    pymin(NSub(S, NMul(C_sigma, nplog(Div(stress, Pa)))), K_SIGMA_CAP)

\* ---------------------------------------------------------------------
\* State of one run
\* ---------------------------------------------------------------------
VARIABLES
    inp,        \* the widget values
    pc,         \* position in run(): fines, init, loop, report, pipeline, done, crashed
    error,      \* type of the uncaught exception, "none" while there is none
    shown,      \* what has been displayed so far
    FC,         \* fines content used by the solver
    qCN,        \* qt / Pa (CPT page)
    m, last_m, index_cs, converged, it, iter_count,
    CN,         \* C_N of the latest iteration
    CRR_base, MSF_max, MSF, C_sigma, K_sigma, CRR,
    sigma_vo, u0, sigma_vo_eff, rd, CSR    \* CSR page

vars == <<inp, pc, error, shown, FC, qCN, m, last_m, index_cs, converged, it,
          iter_count, CN, CRR_base, MSF_max, MSF, C_sigma, K_sigma, CRR,
          sigma_vo, u0, sigma_vo_eff, rd, CSR>>

solverVars == <<m, last_m, index_cs, converged, it, iter_count, CN>>
pipelineVars == <<CRR_base, MSF_max, MSF, C_sigma, K_sigma, CRR>>
csrVars == <<sigma_vo, u0, sigma_vo_eff, rd, CSR>>

\* source names of the widget values and of the normalized index
qt == inp.q
N60 == inp.q
sigma_vc == inp.sigma_vc
sigma_v0 == inp.sigma_v0
Pa == inp.Pa
init_m == inp.init_m
tol == inp.tol
max_iter == inp.max_iter
qc1Ncs == index_cs
N1_60cs == index_cs

\* the state in which run() starts on the widget values inp
Started ==
    /\ pc = "fines"
    /\ error = "none"
    /\ shown = {}
    /\ FC = None /\ qCN = None
    /\ m = None /\ last_m = None /\ index_cs = None
    /\ converged = FALSE /\ it = 0 /\ iter_count = None /\ CN = None
    /\ CRR_base = None /\ MSF_max = None /\ MSF = None
    /\ C_sigma = None /\ K_sigma = None /\ CRR = None
    /\ sigma_vo = None /\ u0 = None /\ sigma_vo_eff = None
    /\ rd = None /\ CSR = None

Init ==
    /\ IsGeneralInput(inp) \/ IsTypicalInput(inp) \/ IsEdgeInput(inp)
    /\ Started


\* an uncaught exception ends the script run
Crash(e) == pc' = "crashed" /\ error' = e

\* ---------------------------------------------------------------------
\* Fines content
\* ---------------------------------------------------------------------
\* crr_cpt.py, "compute FC, Ic, F depending on inputs": [err, FC]
CptFinesResult(i) ==
    IF i.use_direct_FC THEN [err |-> "none", FC |-> i.FC]
    ELSE LET computed_F == compute_F_from_fs(i.q, i.fs, i.sigma_vc)
             Qtn == compute_Qtn(i.q, i.sigma_vc, i.Pa, i.n_for_Qtn)
         IN  IF i.provide_Ic_manual /\ i.Ic # None /\ i.Ic # 0
             THEN [err |-> "none", FC |-> ClampFC(estimate_FC_from_Ic(i.Ic))]
             ELSE IF Qtn.kind = "ZeroDivisionError"
             THEN [err |-> "ZeroDivisionError", FC |-> None]
             ELSE IF Qtn.kind = "complex"
             THEN [err |-> "TypeError", FC |-> None]
             ELSE [err |-> "none",
                   FC |-> ClampFC(estimate_FC_from_Ic(
                                    compute_Ic_from_Q_F(Qtn.v, computed_F)))]

\* crr_spt.py, "Fines content (FC) / Ic handling"
SptFinesResult(i) ==
    IF i.use_direct_FC THEN [err |-> "none", FC |-> i.FC]
    ELSE [err |-> "none", FC |-> ClampFC(Mul(80 * S, i.Ic + C_FC) - 137 * S)]

Fines(page, r) ==
    /\ pc = "fines" /\ inp.page = page
    /\ IF r.err # "none"
       THEN Crash(r.err) /\ UNCHANGED <<FC, shown>>
       ELSE /\ FC' = r.FC
            /\ shown' = shown \cup {"FC"}
            /\ pc' = "init"
            /\ UNCHANGED error
    /\ UNCHANGED <<inp, qCN, solverVars, pipelineVars, csrVars>>

CptFines == Fines("CPT", CptFinesResult(inp))
SptFines == Fines("SPT", SptFinesResult(inp))

\* ---------------------------------------------------------------------
\* Solver set-up
\* ---------------------------------------------------------------------
\* qCN = qt / Pa; m = float(init_m); qc1Ncs = None; last_m = None; converged = False
CptInit ==
    /\ pc = "init" /\ inp.page = "CPT"
    /\ IF Pa = 0
       THEN Crash("ZeroDivisionError") /\ UNCHANGED <<qCN, m>>
       ELSE qCN' = Div(qt, Pa) /\ m' = init_m /\ pc' = "loop" /\ UNCHANGED error
    /\ last_m' = None /\ index_cs' = None /\ converged' = FALSE
    /\ UNCHANGED <<inp, shown, FC, it, iter_count, CN, pipelineVars, csrVars>>

\* q = N60; m = float(init_m); last_m = None; N1_60cs = None; converged = False
SptInit ==
    /\ pc = "init" /\ inp.page = "SPT"
    /\ m' = init_m /\ last_m' = None /\ index_cs' = None /\ converged' = FALSE
    /\ pc' = "loop"
    /\ UNCHANGED <<inp, error, shown, FC, qCN, it, iter_count, CN, pipelineVars, csrVars>>

\* ---------------------------------------------------------------------
\* One pass through the body of the for loop: [err, CN, index_new, m_new]
\* ---------------------------------------------------------------------
BodyFail(e, cn) == [err |-> e, CN |-> cn, index_new |-> None, m_new |-> None]

\* crr_cpt.py: CN ... m_new, with the clamps
CptBody(i, qcn, mm, fc) ==
    IF i.sigma_vc = 0 THEN BodyFail("ZeroDivisionError", None)
    ELSE LET base == Div(i.Pa, i.sigma_vc)
             kind == PowKind(base, mm)
         IN  IF kind = "ZeroDivisionError" THEN BodyFail(kind, None)
             ELSE IF kind = "complex" THEN BodyFail("TypeError", None)
             ELSE LET cn == CapCN(PowReal(base, mm))
                      qc1N == Mul(cn, qcn)
                  IN  IF fc + 2 * S = 0 THEN BodyFail("ZeroDivisionError", cn)
                      ELSE LET qc1Ncs_new == FloorIndex(qc1N + delta_qc1N_formula(qc1N, fc))
                           IN  [err |-> "none", CN |-> cn,
                                index_new |-> qc1Ncs_new,
                                m_new |-> ClampM(compute_m_from_qc1Ncs(qc1Ncs_new))]

\* CN = (Pa / sigma_vc) ** m if sigma_vc > 0 else 1.0: [kind, v]
SptCN(i, mm) ==
    IF i.sigma_vc > 0
    THEN LET base == Div(i.Pa, i.sigma_vc)
         IN  IF PowKind(base, mm) = "real"
             THEN [kind |-> "real", v |-> PowReal(base, mm)]
             ELSE [kind |-> PowKind(base, mm), v |-> None]
    ELSE [kind |-> "real", v |-> S]

\* crr_spt.py: CN ... m_new, with the clamps
SptBody(i, mm, fc) ==
    LET c == SptCN(i, mm)
    IN  IF c.kind = "ZeroDivisionError" THEN BodyFail(c.kind, None)
        ELSE IF c.kind = "complex" THEN BodyFail("TypeError", None)
        ELSE LET cn == CapCN(c.v)
                 N1_60 == Mul(cn, i.q)
                 N1_60cs_new == FloorIndex(N1_60 + delta_N1_60_formula(fc))
             IN  [err |-> "none", CN |-> cn, index_new |-> N1_60cs_new,
                  m_new |-> ClampM(compute_m_from_N1_60cs(N1_60cs_new))]

\* for it in range(int(max_iter)): one iteration, with its break
Iterate(page, r) ==
    /\ pc = "loop" /\ inp.page = page
    /\ InRange(it, max_iter)
    /\ it' = it + 1
    /\ IF r.err # "none"
       THEN /\ Crash(r.err)
            /\ CN' = IF r.CN # None THEN r.CN ELSE CN
            /\ UNCHANGED <<m, last_m, index_cs, converged, iter_count>>
       ELSE /\ CN' = r.CN
            /\ m' = r.m_new
            /\ index_cs' = r.index_new
            /\ IF ConvergenceTest(r.m_new, last_m, tol)
               THEN /\ converged' = TRUE
                    /\ iter_count' = it + 1
                    /\ pc' = "report"
                    /\ UNCHANGED last_m
               ELSE /\ last_m' = r.m_new
                    /\ UNCHANGED <<converged, iter_count, pc>>
            /\ UNCHANGED error
    /\ UNCHANGED <<inp, shown, FC, qCN, pipelineVars, csrVars>>

CptIterate == Iterate("CPT", CptBody(inp, qCN, m, FC))
SptIterate == Iterate("SPT", SptBody(inp, m, FC))

\* the else clause of the for loop: iter_count = max_iter
Exhaust(page) ==
    /\ pc = "loop" /\ inp.page = page
    /\ ~InRange(it, max_iter)
    /\ iter_count' = max_iter
    /\ pc' = "report"
    /\ UNCHANGED <<inp, error, shown, FC, qCN, m, last_m, index_cs, converged,
                   it, CN, pipelineVars, csrVars>>

CptExhaust == Exhaust("CPT")
SptExhaust == Exhaust("SPT")

\* st.success / st.warning, then m and the normalized index are written;
\* formatting None with :.4f raises TypeError
Report(page) ==
    /\ pc = "report" /\ inp.page = page
    /\ IF index_cs = None
       THEN /\ Crash("TypeError")
            /\ shown' = shown \cup {IF converged THEN "success" ELSE "warning", "m"}
       ELSE /\ shown' = shown \cup {IF converged THEN "success" ELSE "warning",
                                    "m", "index"}
            /\ pc' = "pipeline"
            /\ UNCHANGED error
    /\ UNCHANGED <<inp, FC, qCN, solverVars, pipelineVars, csrVars>>

CptReport == Report("CPT")
SptReport == Report("SPT")

\* ---------------------------------------------------------------------
\* Resistance pipeline: CRR_base, MSF_max, MSF, C_sigma, K_sigma, CRR
\* ---------------------------------------------------------------------
Pipeline(page, base, msfmax, csig) ==
    /\ pc = "pipeline" /\ inp.page = page
    /\ CRR_base' = base
    /\ MSF_max' = SelectMSFmax(inp, msfmax)
    /\ MSF' = MSF_formula(MSF_max', inp.M)
    /\ C_sigma' = csig
    /\ IF sigma_v0 > 0 /\ Pa = 0
       THEN /\ Crash("ZeroDivisionError")
            /\ shown' = shown \cup {"CRR_base", "MSF_max", "MSF", "C_sigma"}
            /\ UNCHANGED <<K_sigma, CRR>>
       ELSE /\ K_sigma' = IF sigma_v0 <= 0 THEN S
                          ELSE K_sigma_formula(C_sigma', KSigmaStress(inp), Pa)
            /\ CRR' = NMul(NMul(CRR_base', MSF'), K_sigma')
            /\ shown' = shown \cup {"CRR_base", "MSF_max", "MSF", "C_sigma",
                                    "K_sigma", "CRR"}
            /\ pc' = "done"
            /\ UNCHANGED error
    /\ UNCHANGED <<inp, FC, qCN, solverVars, csrVars>>

CptPipeline ==
    Pipeline("CPT", CRR_base_cpt(qc1Ncs), msf_max_cpt(qc1Ncs), C_sigma_cpt(qc1Ncs))
SptPipeline ==
    Pipeline("SPT", CRR_base_spt(N1_60cs), msf_max_spt(N1_60cs), C_sigma_spt(N1_60cs))

Next ==
    \/ CptFines \/ CptInit \/ CptIterate \/ CptExhaust \/ CptReport \/ CptPipeline
    \/ SptFines \/ SptInit \/ SptIterate \/ SptExhaust \/ SptReport \/ SptPipeline

Spec == Init /\ [][Next]_vars



\* =====================================================================
\* CSR page (src/csr.py)
\* =====================================================================
PI == 3141593
TWO_PI == 6283185
HALF_PI == 1570796

\* Taylor series of sin on [-pi/2, pi/2]
SinSeries(x) ==
    LET x2 == Mul(x, x)
        t5 == S - Div(x2, 110 * S)
        t4 == S - Mul(Div(x2, 72 * S), t5)
        t3 == S - Mul(Div(x2, 42 * S), t4)
        t2 == S - Mul(Div(x2, 20 * S), t3)
        t1 == S - Mul(Div(x2, 6 * S), t2)
    IN  Mul(x, t1)

\* math.sin
Sin(x) ==
    LET r0 == x % TWO_PI
        r == IF r0 > PI THEN r0 - TWO_PI ELSE r0
    IN  IF r > HALF_PI THEN SinSeries(PI - r)
        ELSE IF r < -HALF_PI THEN SinSeries(-PI - r)
        ELSE SinSeries(r)

\* def compute_rd(z, M)
compute_rd(z, M) ==
    LET alpha_z == -1012000 - Mul(1126000, Sin(Div(z, 11730000) + 5133000))
        beta_z == 106000 + Mul(118000, Sin(Div(z, 11280000) + 5142000))
    IN  Exp(alpha_z + Mul(beta_z, M))

\* np.sum(gamma * thickness) over the rows of the soil table
RECURSIVE SumLayers(_)
SumLayers(rows) ==
    IF rows = <<>> THEN 0
    ELSE Mul(Head(rows).gamma, Head(rows).h) + SumLayers(Tail(rows))

\* pore pressure: 0.0 at or above the water table
PorePressure(z, wt_depth, gamma_w) ==
    IF z <= wt_depth THEN 0 ELSE Mul(gamma_w, z - wt_depth)

\* CSR = 0.65 * amax_g * (sigma_vo / sigma_vo_eff) * rd
\* (sigma_vo is a numpy float: a zero divisor gives nan or inf, no exception)
CSR_formula(amax_g, svo, svo_eff, r) ==
    LET ratio == IF svo_eff # 0 THEN Div(svo, svo_eff)
                 ELSE IF svo = 0 THEN NaN ELSE Sgn(svo) * HUGE
    IN  NMul(NMul(Mul(650000, amax_g), ratio), r)

\* the guard letting a zero effective stress through
EffectiveStressRejected_Lt(s) == s < 0

\* if sigma_vo_eff <= 0: st.error(...); st.stop()
EffectiveStressRejected(s) == s <= 0

\* the soil table has n_layers rows, 1 <= n_layers <= MaxLayers here
MaxLayers == 2

\* a row of the data editor: unit weight and thickness; any number can be typed
SoilRows == [gamma : {-18 * S, 1 * S, 18 * S}, h : {1 * S, 3 * S}]

RECURSIVE SoilTables(_)
SoilTables(n) ==
    IF n = 0 THEN {<<>>}
    ELSE { Append(t, r) : t \in SoilTables(n - 1), r \in SoilRows }

\* widget values of the CSR page within their min_value / max_value
IsCsrInput(i) ==
    \E n \in 1 .. MaxLayers :
    \E rows \in SoilTables(n), z \in {100000, 3 * S, 10 * S},
       wt \in {0, 3 * S, 12 * S}, b \in BOOLEAN :
        i = [page |-> "CSR", button |-> b, amax_g |-> 333000, M |-> 7500000,
             n_layers |-> n, rows |-> rows, z |-> z, wt_depth |-> wt,
             gamma_w |-> 9810000]

\* the state in which a page's run() starts, nothing computed yet
PageStarted ==
    /\ pc = "start"
    /\ error = "none"
    /\ shown = {}
    /\ FC = None /\ qCN = None
    /\ m = None /\ last_m = None /\ index_cs = None
    /\ converged = FALSE /\ it = 0 /\ iter_count = None /\ CN = None
    /\ CRR_base = None /\ MSF_max = None /\ MSF = None
    /\ C_sigma = None /\ K_sigma = None /\ CRR = None
    /\ sigma_vo = None /\ u0 = None /\ sigma_vo_eff = None
    /\ rd = None /\ CSR = None

\* the script ran without a click on "Compute CSR": nothing is computed
CsrIdle ==
    /\ pc = "start" /\ inp.page = "CSR" /\ ~inp.button
    /\ pc' = "done"
    /\ UNCHANGED <<inp, error, shown, FC, qCN, solverVars, pipelineVars, csrVars>>

\* total stress, pore pressure, effective stress; st.error and st.stop()
\* when the effective stress is not positive
CsrStress ==
    /\ pc = "start" /\ inp.page = "CSR" /\ inp.button
    /\ sigma_vo' = SumLayers(inp.rows)
    /\ u0' = PorePressure(inp.z, inp.wt_depth, inp.gamma_w)
    /\ sigma_vo_eff' = sigma_vo' - u0'
    /\ IF EffectiveStressRejected(sigma_vo_eff')
       THEN shown' = shown \cup {"invalid_input"} /\ pc' = "stopped"
       ELSE pc' = "csr" /\ UNCHANGED shown
    /\ UNCHANGED <<inp, error, FC, qCN, solverVars, pipelineVars, rd, CSR>>

\* rd, CSR and the five st.metric outputs
CsrCompute ==
    /\ pc = "csr" /\ inp.page = "CSR"
    /\ rd' = compute_rd(inp.z, inp.M)
    /\ CSR' = CSR_formula(inp.amax_g, sigma_vo, sigma_vo_eff, rd')
    /\ shown' = shown \cup {"sigma_vo", "u0", "sigma_vo_eff", "rd", "CSR"}
    /\ pc' = "done"
    /\ UNCHANGED <<inp, error, FC, qCN, solverVars, pipelineVars,
                   sigma_vo, u0, sigma_vo_eff>>

\* =====================================================================
\* CRR - clay & plastic silt page (src/crr_clay.py)
\* =====================================================================
\* Qtn = ((qt - sigma_vc) / Pa) * (Pa / sigma_vc) ** n_star, sigma_vc # 0:
\* [kind, v] as for compute_Qtn
clay_Qtn(q, svc, pa, n_star) ==
    IF pa = 0 THEN [kind |-> "ZeroDivisionError", v |-> None]
    ELSE LET base == Div(pa, svc)
         IN  IF PowKind(base, n_star) # "real"
             THEN [kind |-> PowKind(base, n_star), v |-> None]
             ELSE [kind |-> "real",
                   v |-> Mul(Div(q - svc, pa), PowReal(base, n_star))]

\* K_D = (p1 - p0) / sigma_v0
clay_K_D(p0, p1, sv0) == Div(p1 - p0, sv0)

\* the method branch of run(): the guard of the method, then its CRR_base;
\* [kind, v] with kind "invalid" when the guard returned
ClayBaseResult(i) ==
    IF i.method = "CPT"
    THEN IF i.sigma_vc <= 0 THEN [kind |-> "invalid", v |-> None]
         ELSE LET Qtn == clay_Qtn(i.qt, i.sigma_vc, i.Pa, i.n_star)
              IN  IF Qtn.kind # "real" THEN Qtn
                  ELSE [kind |-> "real", v |-> Mul(53000, Qtn.v)]
    ELSE IF i.method = "DMT"
    THEN IF i.sigma_v0 <= 0 THEN [kind |-> "invalid", v |-> None]
         ELSE LET K_D == clay_K_D(i.p0, i.p1, i.sigma_v0)
              IN  IF PowKind(K_D, 1250000) # "real"
                  THEN [kind |-> PowKind(K_D, 1250000), v |-> None]
                  ELSE [kind |-> "real", v |-> Mul(74000, PowReal(K_D, 1250000))]
    ELSE IF i.OCR <= 0 THEN [kind |-> "invalid", v |-> None]
         ELSE [kind |-> "real", v |-> Mul(180000, PowReal(i.OCR, 800000))]

ClayMethodInputs ==
    [method : {"CPT"}, qt : {150 * S, 1500 * S},
     sigma_vc : {-100 * S, 0, 25 * S, 100 * S}, n_star : {S, 500000},
     p0 : {None}, p1 : {None}, sigma_v0 : {None}, OCR : {None}]
    \cup [method : {"DMT"}, qt : {None}, sigma_vc : {None}, n_star : {None},
          p0 : {200 * S}, p1 : {100 * S, 400 * S, 1100 * S},
          sigma_v0 : {-100 * S, 0, 25 * S, 100 * S}, OCR : {None}]
    \cup [method : {"OCR"}, qt : {None}, sigma_vc : {None}, n_star : {None},
          p0 : {None}, p1 : {None}, sigma_v0 : {None},
          OCR : {-1 * S, 0, 2 * S, 10 * S}]

\* widget values of the clay page (no number_input has a min_value)
IsClayInput(i) ==
    \E mi \in ClayMethodInputs, pa \in {-DEFAULT_PA, 0, DEFAULT_PA},
       msf \in {S, 1500000}, ks \in {S, 900000} :
        i = [page |-> "Clay", method |-> mi.method, Pa |-> pa, MSF |-> msf,
             K_sigma |-> ks, qt |-> mi.qt, sigma_vc |-> mi.sigma_vc,
             n_star |-> mi.n_star, p0 |-> mi.p0, p1 |-> mi.p1,
             sigma_v0 |-> mi.sigma_v0, OCR |-> mi.OCR]

\* method inputs, guard (st.error and return), CRR_base = float(CRR_base);
\* float() of a complex CRR_base raises TypeError
ClayBase ==
    /\ pc = "start" /\ inp.page = "Clay"
    /\ LET r == ClayBaseResult(inp)
       IN  IF r.kind = "invalid"
           THEN /\ shown' = shown \cup {"invalid_input"}
                /\ pc' = "done"
                /\ UNCHANGED <<error, CRR_base>>
           ELSE IF r.kind = "ZeroDivisionError"
           THEN Crash(r.kind) /\ UNCHANGED <<shown, CRR_base>>
           ELSE IF r.kind = "complex"
           THEN /\ Crash("TypeError")
                /\ shown' = shown \cup {"index"}
                /\ UNCHANGED CRR_base
           ELSE /\ CRR_base' = r.v
                /\ shown' = shown \cup {"index", "CRR_base"}
                /\ pc' = "final"
                /\ UNCHANGED error
    /\ UNCHANGED <<inp, FC, qCN, solverVars, MSF_max, MSF, C_sigma, K_sigma,
                   CRR, csrVars>>

\* CRR = CRR_base * MSF * K_sigma and its st.metric
ClayFinal ==
    /\ pc = "final" /\ inp.page = "Clay"
    /\ CRR' = Mul(Mul(CRR_base, inp.MSF), inp.K_sigma)
    /\ shown' = shown \cup {"CRR"}
    /\ pc' = "done"
    /\ UNCHANGED <<inp, error, FC, qCN, solverVars, CRR_base, MSF_max, MSF,
                   C_sigma, K_sigma, csrVars>>

\* =====================================================================
\* CRR - DMT page (src/crr_dmt.py)
\* =====================================================================
\* K_D = (p1 - p0) / sigma_v0 if sigma_v0 > 0, else 0.0
dmt_K_D(i) ==
    IF i.sigma_v0 > 0 THEN Div(i.p1 - i.p0, i.sigma_v0) ELSE 0

\* I_D = (p1 - p0) / (p0 - u0) if p0 - u0 > 0, else 0.0
dmt_I_D(i) ==
    IF i.p0 - i.u0 > 0 THEN Div(i.p1 - i.p0, i.p0 - i.u0) ELSE 0

\* CRR_base = min(93.0 * (0.025 * K_D) ** 2 + 0.08, 1.0)
dmt_CRR_base(K_D) ==
    pymin(Mul(93 * S, Sq(Mul(25000, K_D))) + 80000, S)

\* the two validity warnings
DmtWarnings(K_D, I_D) ==
    (IF ~(2 * S < K_D /\ K_D < 6 * S) THEN {"warning_K_D"} ELSE {})
    \cup (IF ~(I_D > 1200000) THEN {"warning_I_D"} ELSE {})

\* widget values of the DMT page (no number_input has a min_value)
IsDmtInput(i) ==
    \E p1 \in {400 * S, 1100 * S}, pore \in {50 * S, 200 * S, 250 * S},
       sv0 \in {-100 * S, 0, 100 * S}, msf \in {S, 1500000},
       ks \in {S, 900000} :
        i = [page |-> "DMT", p0 |-> 200 * S, p1 |-> p1, u0 |-> pore,
             sigma_v0 |-> sv0, Pa |-> DEFAULT_PA, MSF |-> msf, K_sigma |-> ks]

\* "Computed DMT indexes": K_D, I_D and the warnings
DmtIndexes ==
    /\ pc = "start" /\ inp.page = "DMT"
    /\ shown' = shown \cup {"K_D", "I_D"}
                      \cup DmtWarnings(dmt_K_D(inp), dmt_I_D(inp))
    /\ pc' = "crr"
    /\ UNCHANGED <<inp, error, FC, qCN, solverVars, pipelineVars, csrVars>>

\* "CRR computation" and the final st.metric
DmtCrr ==
    /\ pc = "crr" /\ inp.page = "DMT"
    /\ CRR_base' = dmt_CRR_base(dmt_K_D(inp))
    /\ CRR' = Mul(Mul(CRR_base', inp.MSF), inp.K_sigma)
    /\ shown' = shown \cup {"CRR_base", "MSF", "K_sigma", "CRR"}
    /\ pc' = "done"
    /\ UNCHANGED <<inp, error, FC, qCN, solverVars, MSF_max, MSF, C_sigma,
                   K_sigma, csrVars>>

\* =====================================================================
\* CRR - Vs page (src/crr_vs.py)
\* =====================================================================
\* Vs1 = (Pa / sigma_v0) ** 0.25 * Vs if sigma_v0 > 0, else Vs: [kind, v]
vs_Vs1(i) ==
    IF i.sigma_v0 > 0
    THEN LET base == Div(i.Pa, i.sigma_v0)
         IN  IF PowKind(base, 250000) # "real"
             THEN [kind |-> PowKind(base, 250000), v |-> None]
             ELSE [kind |-> "real", v |-> Mul(PowReal(base, 250000), i.Vs)]
    ELSE [kind |-> "real", v |-> i.Vs]

\* Vs1* from the fines content
vs_Vs1_star(fc) ==
    IF fc < 5 * S THEN 200 * S + Mul(15 * S, Div(35 * S - fc, 30 * S))
    ELSE 215 * S

\* CRR_Mw=7.5 with a = 0.022, b = 2.8
vs_CRR_base(Vs1, Vs1_star) ==
    IF Vs1 > 0 /\ Vs1 < Vs1_star
    THEN Mul(22000, Sq(Div(Vs1, 100 * S)))
         + Mul(2800000, Div(S, Vs1_star - Vs1) - Div(S, Vs1_star))
    ELSE Mul(22000, Sq(Div(Vs1, 100 * S)))

\* widget values of the Vs page (no number_input has a min_value)
IsVsInput(i) ==
    \E v \in {180 * S, 250 * S}, sv0 \in {-100 * S, 0, 100 * S},
       pa \in {-DEFAULT_PA, 0, DEFAULT_PA}, fc \in {0, 5 * S},
       msf \in {S, 1500000}, ks \in {S, 900000} :
        i = [page |-> "Vs", Vs |-> v, sigma_v0 |-> sv0, Pa |-> pa, FC |-> fc,
             M |-> 7500000, MSF |-> msf, K_sigma |-> ks]

\* Vs1 and Vs1* are written, then Vs1 >= Vs1_star is evaluated: comparing a
\* complex Vs1 raises TypeError
VsNormalize ==
    /\ pc = "start" /\ inp.page = "Vs"
    /\ LET r == vs_Vs1(inp)
       IN  IF r.kind = "complex"
           THEN /\ Crash("TypeError")
                /\ shown' = shown \cup {"Vs1", "Vs1_star"}
           ELSE /\ shown' = shown \cup {"Vs1", "Vs1_star"}
                      \cup (IF r.v >= vs_Vs1_star(inp.FC)
                            THEN {"warning_Vs1"} ELSE {})
                /\ pc' = "crr"
                /\ UNCHANGED error
    /\ UNCHANGED <<inp, FC, qCN, solverVars, pipelineVars, csrVars>>

\* "CRR computation" and the final st.metric
VsCrr ==
    /\ pc = "crr" /\ inp.page = "Vs"
    /\ CRR_base' = vs_CRR_base(vs_Vs1(inp).v, vs_Vs1_star(inp.FC))
    /\ CRR' = Mul(Mul(CRR_base', inp.MSF), inp.K_sigma)
    /\ shown' = shown \cup {"CRR_base", "MSF", "K_sigma", "CRR"}
    /\ pc' = "done"
    /\ UNCHANGED <<inp, error, FC, qCN, solverVars, MSF_max, MSF, C_sigma,
                   K_sigma, csrVars>>

\* ---------------------------------------------------------------------
\* The pages without a solver, one run of one page
\* ---------------------------------------------------------------------
PagesInit ==
    /\ IsCsrInput(inp) \/ IsClayInput(inp) \/ IsDmtInput(inp) \/ IsVsInput(inp)
    /\ PageStarted

PagesNext ==
    \/ CsrIdle \/ CsrStress \/ CsrCompute
    \/ ClayBase \/ ClayFinal
    \/ DmtIndexes \/ DmtCrr
    \/ VsNormalize \/ VsCrr

PagesSpec == PagesInit /\ [][PagesNext]_vars

\* =====================================================================
\* Properties
\* =====================================================================
Terminal == pc \in {"done", "crashed"}
\* an iteration of the loop has run to its end
IterationCompleted == index_cs # None

\* C1: an input with sigma_vc <= 0 is rejected before the loop is entered:
\* no iteration executes, an invalid-input outcome is reported, and no m,
\* normalized index or CRR is produced.
\* (Stated for Pa > 0, so that sigma_vc is the only invalid stress.)
C1_RejectedBeforeLoop ==
    (sigma_vc <= 0 /\ Pa > 0) =>
        /\ it = 0
        /\ index_cs = None /\ CRR = None
        /\ Terminal => "invalid_input" \in shown /\ error = "none"

\* C2: a run ends either with a numeric CRR or with an explicit rejection,
\* never in an uncaught exception.
\* (Stated for positive sigma_vc and Pa; the other inputs are free.)
C2_NoUncaughtException ==
    (sigma_vc > 0 /\ Pa > 0) =>
        /\ error = "none" /\ pc # "crashed"
        /\ pc = "done" => IsNum(CRR) \/ "invalid_input" \in shown

\* C3: the loop always terminates, no iteration runs beyond max_iterations,
\* and the reported iteration count never exceeds max_iterations.
C3_IterationBound ==
    /\ it > 0 => it <= max_iter
    /\ iter_count # None => iter_count <= max_iter
C3_LoopLeft == pc \in {"report", "pipeline", "done", "crashed"}
\* Every step keeps the bound, every pass through the loop uses up one of the
\* max_iterations indices, and a loop that was left is not entered again.
C3_TerminatesWithinBound ==
    [][ /\ C3_IterationBound'
        /\ (pc = "loop" /\ pc' = "loop") => it' = it + 1
        /\ C3_LoopLeft => C3_LoopLeft' ]_vars
\* witness: a run used all of a positive max_iter and left the loop unconverged
C3_Witness ==
    /\ sigma_vc > 0 /\ Pa > 0
    /\ pc = "report" /\ max_iter >= 2 /\ it = max_iter
    /\ iter_count = max_iter /\ ~converged

\* C4: when the loop runs max_iterations iterations without the tolerance
\* test passing, the solver ends with converged = false, an iteration count of
\* max_iterations, m and the normalized index of the last iteration; this is
\* reported as a warning and the pipeline still computes CRR from them.
C4_Exhausted == iter_count # None /\ ~converged /\ it = max_iter
C4_NonConvergenceProceeds ==
    C4_Exhausted =>
        /\ iter_count = max_iter
        /\ m # None /\ m = last_m /\ index_cs # None
        /\ pc # "crashed"
        /\ pc \in {"pipeline", "done"} => "warning" \in shown
        /\ pc = "done" => CRR # None

\* C5: for typical inputs with tolerance 1e-4 and max_iterations 200 the
\* solver ends with converged = true after at most 200 iterations.
C5_TypicalConverges ==
    IsTypical(inp) =>
        /\ pc # "crashed"
        /\ pc = "loop" => it < DEFAULT_MAX_ITER
        /\ pc \in {"report", "pipeline", "done"} =>
               converged /\ iter_count <= DEFAULT_MAX_ITER
\* witness: a typical run that needed several iterations before converging
C5_Witness ==
    /\ IsTypical(inp) /\ pc = "done" /\ converged /\ iter_count >= 4

C7_MSFmaxNeverAboveCap == MSF_max # None => MSF_max <= MSF_CAP
\* C7 (amended): the MSF_max computed from the normalized index never exceeds
\* 2.2 and enters the MSF formula when no manual value is given; a manual
\* MSF_max enters the MSF formula as supplied, uncapped.
C7_ComputedMSFmaxCapped ==
    MSF_max # None =>
        IF inp.provide_MSF_manual /\ inp.MSF_max_user # None
        THEN MSF_max = inp.MSF_max_user
        ELSE MSF_max <= MSF_CAP
\* witness: the computed value was cut down to the cap
C7_Witness ==
    /\ sigma_vc > 0 /\ Pa > 0
    /\ pc = "done" /\ ~inp.provide_MSF_manual /\ MSF_max = MSF_CAP

C9_KSigmaUsesSigmaVc ==
    (K_sigma # None /\ sigma_vc > 0 /\ Pa > 0) =>
        K_sigma = IF sigma_v0 <= 0 THEN S
                  ELSE K_sigma_formula(C_sigma, sigma_vc, Pa)

\* C10: when the argument of the logarithm of K_sigma is non-positive (with
\* sigma_v0 > 0) the pipeline does not evaluate the logarithm and uses
\* K_sigma = 1.0; no undefined value reaches CRR.
C10_LogArgNonPositive == Pa = 0 \/ Div(KSigmaStress(inp), Pa) <= 0
C10_LogArgumentGuarded ==
    /\ K_sigma # NaN /\ CRR # NaN
    /\ (C_sigma # None /\ sigma_v0 > 0 /\ C10_LogArgNonPositive) =>
           pc = "done" /\ K_sigma = S /\ IsNum(CRR)


\* C11: the fines content FC that the solvers use in the fines-correction
\* formula lies in [0, 100], whether it was supplied directly or derived
\* from Ic (it is computed once, before the loop).
C11_FCInRange ==
    (sigma_vc > 0 /\ Pa > 0 /\ it >= 1) => FC >= 0 /\ FC <= 100 * S

C13_ClayBaseCapped ==
    (inp.page = "Clay" /\ inp.Pa > 0 /\ CRR # None) => CRR_base <= S

\* the stress denominator of the run is not positive, or (DMT page) p0 - u0
\* is not positive
C14_InvalidDenominator ==
    \/ inp.page = "Clay" /\ inp.method = "CPT" /\ inp.sigma_vc <= 0
    \/ inp.page = "Clay" /\ inp.method = "DMT" /\ inp.sigma_v0 <= 0
    \/ inp.page = "Clay" /\ inp.method = "OCR" /\ inp.OCR <= 0
    \/ inp.page = "DMT" /\ (inp.sigma_v0 <= 0 \/ inp.p0 - inp.u0 <= 0)
    \/ inp.page = "Vs" /\ inp.sigma_v0 <= 0

\* C14: in the clay, DMT and Vs modules a non-positive stress denominator
\* (sigma_vc, sigma_v0, OCR) or a non-positive p0 - u0 is surfaced as an
\* invalid-input outcome and no CRR is computed or displayed for that run.
C14_InvalidInputWithheld ==
    (inp.page \in {"Clay", "DMT", "Vs"} /\ C14_InvalidDenominator) =>
        /\ CRR = None /\ "CRR" \notin shown
        /\ pc \in {"done", "crashed"} => "invalid_input" \in shown

\* the CPT scenario: qt = 150, sigma_vc = sigma_v0 = 100, Pa = 101.325,
\* FC = 5 given directly, initial m = 0.6, tolerance 1e-4, 200 iterations,
\* M = 7.5
C15_Scenario ==
    inp = MkInput("CPT", 150 * S, 100 * S, 100 * S, DEFAULT_PA, 7500000,
                  [use_direct_FC |-> TRUE, FC |-> 5 * S,
                   provide_Ic_manual |-> FALSE, Ic |-> None],
                  600000, DEFAULT_TOL, DEFAULT_MAX_ITER,
                  [provide_MSF_manual |-> FALSE, MSF_max_user |-> None])

\* the scenario's run converges, ends with a finite positive CRR and MSF
\* within 0.001 of 1
C15_ScenarioOutcome ==
    /\ pc # "crashed"
    /\ pc \in {"report", "pipeline", "done"} => converged
    /\ pc = "done" => IsNum(CRR) /\ CRR > 0 /\ CRR < HUGE
                      /\ Abs(MSF - S) <= 1000

\* C15 (as claimed): for the CPT scenario the solver converges, the final CRR
\* is a finite positive number that is less than the uncapped CRR_base, and
\* MSF is approximately 1.
C15_ScenarioCRRBelowBase ==
    C15_Scenario =>
        /\ C15_ScenarioOutcome
        /\ pc = "done" => CRR < CRR_base

\* C15 (amended): for the CPT scenario the solver converges, MSF is
\* approximately 1 and the final CRR is a finite positive number slightly
\* greater than the uncapped CRR_base, because sigma_vc < Pa makes K_sigma
\* exceed 1.
C15_ScenarioCRRAboveBase ==
    C15_Scenario =>
        /\ C15_ScenarioOutcome
        /\ pc = "done" => /\ K_sigma > S /\ K_sigma <= K_SIGMA_CAP
                          /\ CRR > CRR_base
                          /\ CRR <= Mul(CRR_base, 1001000)

\* the scenario's run has finished
C15_Witness ==
    C15_Scenario /\ pc = "done" /\ converged /\ iter_count = 2 /\ m = M_HI

\* what the body of the loop computes in the current state: [err, CN,
\* index_new, m_new]
C16_Body ==
    IF inp.page = "CPT" THEN CptBody(inp, qCN, m, FC) ELSE SptBody(inp, m, FC)

\* C16: the solver stops with converged = true exactly at the first iteration
\* (0-based step k) in which a previous clamped m exists and
\* |m_new - last_m| < tolerance, last_m being the clamped m_new of iteration
\* k - 1; it then reports iterations = k + 1 and returns the m_new and the
\* normalized index of iteration k. In every earlier iteration it sets last_m,
\* m and the normalized index to that iteration's values and continues.
C16_ConvergenceStep ==
    [][ (pc = "loop" /\ it' = it + 1 /\ pc' # "crashed") =>
            /\ ~converged
            /\ IF it = 0 THEN last_m = None ELSE last_m # None /\ last_m = m
            /\ m' = C16_Body.m_new
            /\ index_cs' = C16_Body.index_new
            /\ IF last_m # None /\ Abs(C16_Body.m_new - last_m) < tol
               THEN /\ converged' /\ iter_count' = it + 1
                    /\ pc' = "report"
               ELSE /\ ~converged' /\ last_m' = C16_Body.m_new
                    /\ iter_count' = iter_count /\ pc' = "loop"
      ]_vars

\* the loop was left by the break in its fourth iteration, before the clamp
\* of m was reached
C16_Witness ==
    /\ pc = "report" /\ converged /\ iter_count = 4 /\ it = 4
    /\ m > M_LO /\ m < M_HI /\ last_m # m

\* C17: the solver never reports convergence in its first iteration, because
\* last_m is unset there: converged = true implies a reported iteration count
\* of at least 2, and with max_iterations = 1 the solver always ends with
\* converged = false, even when the initial guess already equals the fixed
\* point.
C17_NoFirstIterationConvergence ==
    /\ it <= 1 => ~converged
    /\ converged => iter_count # None /\ iter_count >= 2
    /\ max_iter = 1 => /\ ~converged
                       /\ pc \in {"report", "pipeline", "done"} =>
                              iter_count = 1 /\ it = 1 /\ last_m = m

\* one iteration on an initial guess that is the fixed point
C17_Witness ==
    /\ max_iter = 1 /\ tol > 0 /\ pc = "done" /\ ~converged
    /\ iter_count = 1 /\ m = init_m /\ last_m = init_m
    /\ "warning" \in shown

\* C18: the convergence test is the strict |m_new - last_m| < tolerance, so
\* a tolerance <= 0 makes convergence unreachable: the solver runs exactly
\* max_iterations iterations and ends with converged = false, even when two
\* successive m values are identical.
C18_NonPositiveTolNeverConverges ==
    tol <= 0 =>
        /\ ~converged
        /\ "success" \notin shown
        /\ iter_count # None =>
              /\ iter_count = max_iter
              /\ it = IF max_iter > 0 THEN max_iter ELSE 0

\* tolerance 0 and two successive iterations both clamped to 0.782
C18_Witness ==
    /\ tol = 0 /\ pc = "done" /\ ~converged /\ max_iter >= 2
    /\ it = max_iter /\ iter_count = max_iter
    /\ init_m = M_HI /\ m = M_HI /\ last_m = M_HI
=======================================================================
